---- MODULE Spec2Model ----
(***************************************************************************)
(* Model of file_integrity_checker.py: the FileIntegrityChecker object     *)
(* (its in-memory baseline_data), the baseline store file it loads and     *)
(* saves, and the directory trees it walks and hashes.                     *)
(*                                                                         *)
(* A call of create_baseline or verify_integrity reads the tree at         *)
(* successive instants: os.path.isdir, one directory listing of os.walk    *)
(* per directory, os.path.exists, the open of a file and each f.read.      *)
(* Each of them is one step of the call, and the environment may edit the  *)
(* tree between any two.  The save at the end of a call reads nothing of   *)
(* the tree and belongs to the step of the call's last read.               *)
(*                                                                         *)
(* calculate_hash opens the file and reads it one block at a time until a  *)
(* read returns nothing: the open and each read are steps of their own, an *)
(* edit in place is seen by the reads that follow it, and a file unlinked  *)
(* while it is open is read to the end as it was.                          *)
(*                                                                         *)
(* Abstractions.  The bytes of a data file are a sequence of blocks, each  *)
(* what one f.read(4096) returns; the store file is shorter than a block.  *)
(* sha256 is an injective function of the bytes.  The text                 *)
(* json.dump writes is the sequence of its pieces: the opening brace, one  *)
(* piece for the members a create writes, one for last_checked, and the    *)
(* closing brace; a create is named by its timestamp (datetime.now() is    *)
(* modelled as a strictly increasing clock).  A save ends with the text    *)
(* written, with open() failing and the file as it was, or with the write  *)
(* failing after open() emptied the file and any number of pieces short of *)
(* the whole reached it; whether a write fails is for the environment to   *)
(* decide at every save.  The order in which a directory lists its files   *)
(* is the file system's: it is decided when the second of two files        *)
(* appears and stays while both are there.  The store file is written by   *)
(* the program only; a directory holds its subdirectory `sub` for as long  *)
(* as it exists.  What a call returned is kept in `last` until the caller  *)
(* has taken it.                                                           *)
(***************************************************************************)
EXTENDS Integers, Sequences, FiniteSets, TLC

VARIABLES baseline_file, store, baseline_data, fs, listing, clock, events, pc,
          last, prev

vars == <<baseline_file, store, baseline_data, fs, listing, clock, events, pc,
          last, prev>>

\* ---------------------------------------------------------------- bounds
\* MaxClock bounds the readings of the clock in a run, MaxEvents the edits
\* the environment makes to the trees.
MaxClock == 4
MaxEvents == 1

\* ------------------------------------------------------- paths and trees
\* The directories a run is given: d1 holds files, d2 holds none, and
\* either may be missing.
Dirs == {"d1", "d2"}
PathArgs == Dirs
Elsewhere == "elsewhere"
StoreName == "baseline.json"
DataPaths == {"a.txt", "sub/b.txt"}
AllPaths == DataPaths \cup {StoreName}
\* The names a top directory can hold as files, and the orders in which the
\* file system can list them; sub holds one file.
TopFiles == {"a.txt", StoreName}
Orders == {o \in [1..2 -> TopFiles] : o[1] # o[2]}
SubFiles == <<"sub/b.txt">>
PathsIn(d) == IF d = "d1" THEN DataPaths ELSE {}
Contents == 1..3

\* What stands at a path: nothing, a regular file, a symbolic link whose
\* target does not exist, or a directory.
NoFile == [kind |-> "none", content |-> 0, readable |-> TRUE]
FileOf(c, r) == [kind |-> "file", content |-> c, readable |-> r]
DanglingLink == [kind |-> "link", content |-> 0, readable |-> TRUE]
DirAtPath == [kind |-> "dir", content |-> 0, readable |-> TRUE]
EmptyDir == [isdir |-> TRUE, files |-> [p \in DataPaths |-> NoFile]]
NoDir == [isdir |-> FALSE, files |-> [p \in DataPaths |-> NoFile]]

\* ------------------------------------------------------------ JSON values
\* A parsed JSON value as far as the program looks at it: an object with
\* the keys it has, or an array with its number of items.
\* `order` is the order of the keys of `files`, which a dict keeps.
None == ""
NoDigest == <<>>
NoEntries == [p \in {} |-> [hash |-> NoDigest, last_checked |-> 0]]
EmptyDict == [kind |-> "object", keys |-> {}, items |-> 0, directory |-> None,
              timestamp |-> 0, files |-> NoEntries, order |-> <<>>,
              last_checked |-> 0]
EmptyList == [EmptyDict EXCEPT !.kind = "array"]
OneItemList == [EmptyDict EXCEPT !.kind = "array", !.items = 1]
DirectoryOnly == [EmptyDict EXCEPT !.keys = {"directory"}, !.directory = "d1"]
FilesOnly == [EmptyDict EXCEPT !.keys = {"files"}]
\* The bytes of a data file with content c, in blocks of 4096 bytes: one
\* block, or two; and sha256, an injective function of the bytes that is
\* never empty.
Bytes(c) == IF c = 1 THEN <<301>> ELSE <<300 + c, 300 + c>>
Sha256(bytes) == <<Len(bytes)>> \o bytes

\* A snapshot that an earlier run created for d1 with both its files, at
\* readings of the clock before those of this run.
FirstReading == -3
EarlierEntries ==
  [p \in DataPaths |->
     [hash |-> Sha256(Bytes(1)),
      last_checked |-> IF p = "a.txt" THEN FirstReading + 1 ELSE FirstReading + 2]]
EarlierSnapshot ==
  [kind |-> "object", keys |-> {"directory", "timestamp", "files"}, items |-> 0,
   directory |-> "d1", timestamp |-> FirstReading, files |-> EarlierEntries,
   order |-> <<"a.txt", "sub/b.txt">>, last_checked |-> 0]
\* No object: __init__ was left by an exception.
NoObject == [EmptyDict EXCEPT !.kind = "none"]

\* The texts of the store file, as sequences of pieces.  DumpText(v) is
\* the text json.dump(v, indent=4) writes: the opening brace or bracket,
\* one piece for the members directory, timestamp and files, one for the
\* member last_checked, and the closing one.  Two snapshots give the same
\* piece for directory, timestamp and files when they come from the same
\* create, which the timestamp names.  CompactText(v) is v as another
\* writer laid it out.
EmptyText == <<>>
NotJsonText == <<90>>
NotUtf8Text == <<91>>
LeftBrace == 1
RightBrace == 2
LeftBracket == 3
RightBracket == 4
ItemPiece == 5
DirIndex(v) ==
  IF "directory" \notin v.keys THEN 0
  ELSE CASE v.directory = "d1" -> 1 [] v.directory = "d2" -> 2 [] OTHER -> 3
Created(v) ==
  IF v.keys \cap {"directory", "timestamp", "files"} = {} THEN <<>>
  ELSE <<10 + 20 * DirIndex(v) + (v.timestamp - FirstReading)>>
Checked(v) ==
  IF "last_checked" \in v.keys THEN <<100 + v.last_checked>> ELSE <<>>
DumpText(v) ==
  IF v.kind = "array"
  THEN <<LeftBracket>> \o [i \in 1..v.items |-> ItemPiece] \o <<RightBracket>>
  ELSE <<LeftBrace>> \o Created(v) \o Checked(v) \o <<RightBrace>>
CompactText(v) == [i \in 1..Len(DumpText(v)) |-> 200 + DumpText(v)[i]]
\* What is in the file when the write of DumpText(v) fails after n pieces.
PrefixText(v, n) == SubSeq(DumpText(v), 1, n)

\* The store path: nothing there, a directory, or a file; a file holds text
\* that is JSON (`data` is its value), text that is not, or bytes that are
\* not text, and can be read or not.
AbsentStore ==
  [state |-> "absent", data |-> EmptyDict, text |-> EmptyText, readable |-> TRUE]
DirStore == [AbsentStore EXCEPT !.state = "dir"]
InvalidStore == [AbsentStore EXCEPT !.state = "invalid", !.text = NotJsonText]
LockedStore == [InvalidStore EXCEPT !.readable = FALSE]
TruncatedStore == [AbsentStore EXCEPT !.state = "invalid"]
UndecodableStore ==
  [AbsentStore EXCEPT !.state = "undecodable", !.text = NotUtf8Text]
JsonStore(v, t) == [AbsentStore EXCEPT !.state = "json", !.data = v, !.text = t]

InitStores ==
  [absent |-> AbsentStore,
   directory |-> DirStore,
   invalid |-> InvalidStore,
   locked |-> LockedStore,
   empty |-> TruncatedStore,
   undecodable |-> UndecodableStore,
   emptylist |-> JsonStore(EmptyList, DumpText(EmptyList)),
   list |-> JsonStore(OneItemList, CompactText(OneItemList)),
   nofiles |-> JsonStore(DirectoryOnly, CompactText(DirectoryOnly)),
   nodirectory |-> JsonStore(FilesOnly, CompactText(FilesOnly)),
   snapshot |-> JsonStore(EarlierSnapshot, DumpText(EarlierSnapshot))]

\* What the store path holds at the start.  Inside a monitored tree it is
\* there as one more file of the tree: absent, a directory, without
\* permissions, empty, or holding a snapshot; the other values a store file
\* can hold are met outside the trees.
StoresAt(bf) ==
  IF bf = Elsewhere THEN DOMAIN InitStores
  ELSE {"absent", "directory", "locked", "empty", "snapshot"}

\* Slip: a snapshot without entries counts as no baseline.
TruthyWithEntries(v) ==
  IF v.kind = "object" THEN v.keys # {} /\ v.files # NoEntries ELSE v.items > 0

\* Python truthiness of a loaded value: `not self.baseline_data`.
Truthy(v) == IF v.kind = "object" THEN v.keys # {} ELSE v.items > 0

\* dict.get("directory")
GetDirectory(v) == IF "directory" \in v.keys THEN v.directory ELSE None

\* ------------------------------------------------------------ file system
isdir(f, d) == d \in Dirs /\ f[d].isdir

\* os.path.exists(os.path.join(d, p)): false for a dangling link.
exists(f, st, bf, d, p) ==
  /\ isdir(f, d)
  /\ IF p = StoreName THEN bf = d /\ st.state # "absent"
     ELSE p \in DataPaths /\ f[d].files[p].kind \in {"file", "dir"}

\* Whether os.walk lists p among the files of its directory: every entry of
\* the directory that is not a directory, a dangling link included.
listed(f, st, bf, d, p) ==
  /\ isdir(f, d)
  /\ IF p = StoreName THEN bf = d /\ st.state \notin {"absent", "dir"}
     ELSE p \in DataPaths /\ f[d].files[p].kind \in {"file", "link"}

\* One listing of os.walk(d): the files of d itself, in the order ord of
\* the file system, or those of d/sub.
scandir(f, st, bf, ord, d, part) ==
  LET Found(p) == listed(f, st, bf, d, p)
  IN SelectSeq(IF part = "top" THEN ord[d] ELSE SubFiles, Found)

\* The orders directory d can have once the tree f0 and the store st0 have
\* become f1 and st1: the one it had, ord, while it keeps two files; either,
\* when the second file has just appeared.  With fewer than two files there
\* is nothing to order.
TwoFiles(f, st, bf, d) == \A p \in TopFiles : listed(f, st, bf, d, p)
NoOrder == CHOOSE o \in Orders : TRUE
Placed(f0, st0, f1, st1, bf, ord, d) ==
  IF ~TwoFiles(f1, st1, bf, d) THEN {NoOrder}
  ELSE IF TwoFiles(f0, st0, bf, d) THEN {ord[d]}
  ELSE Orders

Range(s) == {s[i] : i \in 1..Len(s)}

\* ------------------------------------------------------------------ hasher
\* The bytes of the store file.
StoreContent(st) == st.text

\* Line 15: open(file_path, "rb") succeeds on a regular file that may be
\* read; on anything else it raises IOError and calculate_hash returns None.
CanOpen(f, st, bf, d, p) ==
  IF p = StoreName
  THEN bf = d /\ isdir(f, d) /\ st.state \notin {"absent", "dir"} /\ st.readable
  ELSE /\ p \in DataPaths /\ isdir(f, d)
       /\ f[d].files[p].kind = "file" /\ f[d].files[p].readable

\* The bytes the file at a path holds.
FileBytes(f, st, d, p) ==
  IF p = StoreName THEN StoreContent(st) ELSE Bytes(f[d].files[p].content)

\* The descriptor calculate_hash holds between its open and its last read:
\* closed, open on the file at the path, or open on a file that has been
\* unlinked since (`bytes` is what it held then); `got` is what the reads
\* have fed to sha256 so far.
NoHandle == [state |-> "closed", bytes |-> <<>>, got |-> <<>>]
OpenHandle == [NoHandle EXCEPT !.state = "open"]
Held(fd, f, st, d, p) ==
  IF fd.state = "orphan" THEN fd.bytes ELSE FileBytes(f, st, d, p)

\* Line 17: f.read(4096) at offset pos.  It returns the next block of a data
\* file, all of the store file, or nothing at the end of the file.
f_read(bytes, pos, p) ==
  IF pos >= Len(bytes) THEN <<>>
  ELSE IF p = StoreName THEN SubSeq(bytes, pos + 1, Len(bytes))
  ELSE <<bytes[pos + 1]>>

\* Line 19: the digest of what the reads returned.
hexdigest(fd) == Sha256(fd.got)

\* ------------------------------------------------------------------- store
\* Lines 24-32.  json.load raises UnicodeDecodeError on bytes that are not
\* UTF-8, which the except clause does not catch: no object is built.
LoadRaises(st) == st.state = "undecodable" /\ st.readable
load_baseline(st) ==
  IF LoadRaises(st) THEN NoObject
  ELSE IF st.state = "json" /\ st.readable THEN st.data
  ELSE EmptyDict

\* Lines 34-41.  "written": the text of the value replaces the file.
\* "refused": open() raises and the file is as it was; so it is whenever the
\* store path is a directory or a file without permissions.  "cut": open()
\* has emptied (or created) the file and the write raises with the first n
\* pieces of the text in the file.
SaveOutcomes(st, data) ==
  IF st.state = "dir" \/ ~st.readable THEN {[how |-> "refused", n |-> 0]}
  ELSE {[how |-> "written", n |-> Len(DumpText(data))]}
         \cup {[how |-> "cut", n |-> k] : k \in 0..(Len(DumpText(data)) - 1)}
save_baseline(st, outcome, data) ==
  CASE outcome.how = "written" -> JsonStore(data, DumpText(data))
    [] outcome.how = "refused" -> st
    [] outcome.how = "cut" ->
         [TruncatedStore EXCEPT !.text = PrefixText(data, outcome.n)]

\* -------------------------------------------------------------- comparator
\* Slip: create also stamps a top-level last_checked.
NewSnapshotStamped(d, now) ==
  [kind |-> "object", keys |-> {"directory", "timestamp", "files", "last_checked"},
   items |-> 0, directory |-> d, timestamp |-> now, files |-> NoEntries,
   order |-> <<>>, last_checked |-> now]

\* Lines 49-53: the fresh snapshot, before the walk.
NewSnapshot(d, now) ==
  [kind |-> "object", keys |-> {"directory", "timestamp", "files"}, items |-> 0,
   directory |-> d, timestamp |-> now, files |-> NoEntries, order |-> <<>>,
   last_checked |-> 0]

\* Slip: the `if file_hash:` test is dropped, unhashable files get an entry.
KeepsAll(digest) == TRUE

\* Line 61: `if file_hash:`.
Keeps(digest) == digest # NoDigest

\* Lines 63-66: the entry of one hashed file.
AddEntry(bd, p, digest, now) ==
  [bd EXCEPT !.files =
     [q \in DOMAIN bd.files \cup {p} |->
        IF q = p THEN [hash |-> digest, last_checked |-> now] ELSE bd.files[q]],
             !.order = IF p \in DOMAIN bd.files THEN @ ELSE Append(@, p)]

\* The reads a call has still to make, in order.
Read(r, p) == [r |-> r, p |-> p]
ReadEach(r, paths) == [i \in 1..Len(paths) |-> Read(r, paths[i])]
\* os.walk goes down into sub after the files of the top directory, if the
\* listing of the top directory succeeded.
Descend(f, d, part) ==
  IF part = "top" /\ isdir(f, d) THEN <<Read("list", "sub")>> ELSE <<>>

\* Line 88: the entries in the order of the mapping, which is the order in
\* which create hashed them.
EntryOrder(bd) == bd.order

\* Slip: the `continue` after a missing file is dropped.
AfterExistsNoContinue(found, p, rest) == <<Read("hash", p)>> \o rest

\* Lines 90-94: a path that does not exist is missing and is not hashed.
AfterExists(found, p, rest) ==
  IF found THEN <<Read("hash", p)>> \o rest ELSE rest

\* Slip: a file that cannot be hashed is skipped.
DiffersSkipUnreadable(digest, recorded) == digest # NoDigest /\ digest # recorded

\* Line 95.
Differs(digest, recorded) == digest # recorded

\* Slip: the membership test against the baseline is dropped.
NewOfAll(names, bd) == names

\* Lines 101-104.
NewOf(names, bd) ==
  LET Unknown(p) == p \notin DOMAIN bd.files IN SelectSeq(names, Unknown)

\* Slip: verify also refreshes every entry's last_checked.
TouchEntries(bd, now) ==
  [bd EXCEPT !.keys = @ \cup {"last_checked"}, !.last_checked = now,
             !.files = [p \in DOMAIN @ |-> [@[p] EXCEPT !.last_checked = now]]]

\* Line 126.
Touch(bd, now) ==
  [bd EXCEPT !.keys = @ \cup {"last_checked"}, !.last_checked = now]

\* ----------------------------------------------------------------- reports
\* What a call has read so far: what os.path.exists returned for a path,
\* the digest calculate_hash returned for it, and the paths os.walk listed.
Unread == <<-1>>
NoSeen == [ex |-> [p \in AllPaths |-> "-"], dig |-> [p \in AllPaths |-> Unread],
           listed |-> {}]

\* The call in progress: the operation, its directory, the reads still to
\* make, the lists so far, whether the tree has been left alone since the
\* call began, and the descriptor of the file it is hashing.
Idle == [op |-> "idle", dir |-> "", todo |-> <<>>, changed |-> <<>>,
         new |-> <<>>, missing |-> <<>>, quiet |-> TRUE, seen |-> NoSeen,
         fd |-> NoHandle]

\* What the latest step reported: the operation, its argument, how it ended,
\* how its save ended, the lists it returned, what it read, whether the
\* tree was left alone while it ran, and (for a verify) the kind of the
\* completed operation it follows with no edit of the tree since that
\* operation began.
Report(op, arg, outcome, saved, after, c) ==
  [op |-> op, arg |-> arg, outcome |-> outcome, saved |-> saved, after |-> after,
   changed |-> c.changed, new |-> c.new, missing |-> c.missing,
   quiet |-> c.quiet, seen |-> c.seen]
Plain(op, arg, outcome) == Report(op, arg, outcome, "none", "none", Idle)
\* The latest completed create or verify, while nothing has happened since:
\* its kind (if the tree was left alone while it ran), how its save ended
\* and the lists it returned.
\* No report: no call has returned anything that the caller has not taken.
NoReport == Plain("", "", "")
NoPrev == [kind |-> "none", saved |-> "none",
           changed |-> <<>>, new |-> <<>>, missing |-> <<>>]
Done(op, quiet, saved, c) ==
  [kind |-> IF quiet THEN op ELSE "none", saved |-> saved,
   changed |-> c.changed, new |-> c.new, missing |-> c.missing]

\* -------------------------------------------------------------------- Init
\* The trees a run starts with: both directories hold their files, or d1 is
\* empty and d2 does not exist.
FullDir(d) ==
  [isdir |-> TRUE,
   files |-> [p \in DataPaths |-> IF p \in PathsIn(d) THEN FileOf(1, TRUE) ELSE NoFile]]
InitTrees ==
  {[d \in Dirs |-> FullDir(d)],
   [d \in Dirs |-> IF d = "d1" THEN EmptyDir ELSE NoDir]}

Init ==
  /\ baseline_file \in {Elsewhere, "d1"}
  /\ \E o \in StoresAt(baseline_file) : store = InitStores[o]
  /\ baseline_data = load_baseline(store)
  /\ fs \in InitTrees
  /\ listing \in [Dirs -> Orders]
  /\ \A d \in Dirs :
       listing[d] \in Placed(fs, AbsentStore, fs, store, baseline_file, listing, d)
  /\ clock = 0
  /\ events = 0
  /\ pc = Idle
  /\ last = NoReport
  /\ prev = NoPrev

\* ----------------------------------------------------------------- actions
\* No call is in progress and the caller has taken what the last one
\* returned.
Ready == pc.op = "idle" /\ last = NoReport

\* The store file or a tree has changed: the file system orders the
\* directories that have come to hold two files.
Relist(f1, st1) ==
  /\ listing' \in [Dirs -> Orders]
  /\ \A d \in Dirs :
       listing'[d] \in Placed(fs, store, f1, st1, baseline_file, listing, d)

\* A new process: FileIntegrityChecker(baseline_file), lines 7-9.  Where the
\* object already holds what the store file holds, a new process is in the
\* same state as the old one and the step is left out; a start that fails
\* builds no object and can only be tried again.
Construct ==
  /\ Ready
  /\ baseline_data # load_baseline(store) \/ LoadRaises(store)
  /\ baseline_data' = load_baseline(store)
  /\ last' = Plain("load", "", IF LoadRaises(store) THEN "crash" ELSE "")
  /\ prev' = NoPrev
  /\ UNCHANGED <<baseline_file, store, fs, listing, clock, events, pc>>

\* The caller takes what the call returned, lines 158-161.
Return ==
  /\ pc.op = "idle" /\ last # NoReport
  /\ last' = NoReport
  /\ UNCHANGED <<baseline_file, store, baseline_data, fs, listing, clock, events,
                 pc, prev>>

\* Slip: the `return` after the invalid-directory message is dropped.
CreateBaselineNoReturn(directory) ==
  /\ Ready /\ baseline_data # NoObject
  /\ clock < MaxClock
  /\ clock' = clock + 1
  /\ baseline_data' = NewSnapshot(directory, clock + 1)
  /\ pc' = [Idle EXCEPT !.op = "create", !.dir = directory,
                        !.todo = <<Read("list", "top")>>]
  /\ last' = IF isdir(fs, directory) THEN NoReport
             ELSE Plain("create", directory, "InvalidDirectory")
  /\ prev' = NoPrev
  /\ UNCHANGED <<baseline_file, store, fs, listing, events>>

\* create_baseline(directory), lines 43-53: the directory test and the
\* fresh snapshot.  (A call that the clock bound would stop half-way is not
\* begun.)
CreateBaseline(directory) ==
  /\ Ready /\ baseline_data # NoObject
  /\ IF ~isdir(fs, directory)
     THEN /\ last' = Plain("create", directory, "InvalidDirectory")
          /\ UNCHANGED <<baseline_file, store, baseline_data, fs, listing, clock,
                         events, pc, prev>>
     ELSE LET Ok(p) == /\ listed(fs, store, baseline_file, directory, p)
                       /\ CanOpen(fs, store, baseline_file, directory, p)
          IN /\ clock + 1 + Cardinality({p \in AllPaths : Ok(p)}) <= MaxClock
             /\ clock' = clock + 1
             /\ baseline_data' = NewSnapshot(directory, clock + 1)
             /\ pc' = [Idle EXCEPT !.op = "create", !.dir = directory,
                                   !.todo = <<Read("list", "top")>>]
             /\ last' = NoReport
             /\ prev' = NoPrev
             /\ UNCHANGED <<baseline_file, store, fs, listing, events>>

\* The step of calculate_hash that the read rd is, lines 13-22: the open,
\* or one f.read.  `ended` tells that calculate_hash returns with this
\* step, `digest` what it returns then, `fd` the descriptor after the step.
HashStep(rd, d) ==
  LET opened == rd.r = "hash" /\ CanOpen(fs, store, baseline_file, d, rd.p)
      block == IF rd.r = "read"
               THEN f_read(Held(pc.fd, fs, store, d, rd.p), Len(pc.fd.got), rd.p)
               ELSE <<>>
      more == rd.r = "read" /\ block # <<>>
  IN [ended |-> (rd.r = "hash" /\ ~opened) \/ (rd.r = "read" /\ block = <<>>),
      digest |-> IF rd.r = "read" THEN hexdigest(pc.fd) ELSE NoDigest,
      fd |-> IF opened THEN OpenHandle
             ELSE IF more THEN [pc.fd EXCEPT !.got = @ \o block]
             ELSE NoHandle,
      todo |-> IF opened THEN <<Read("read", rd.p)>> \o Tail(pc.todo)
               ELSE IF more THEN pc.todo
               ELSE Tail(pc.todo)]

\* create_baseline, lines 55-67: one listing of the walk, or one step of
\* the hashing of one listed file; after the last of them the save and the
\* message.
CreateWalk ==
  /\ pc.op = "create"
  /\ LET rd == Head(pc.todo)
         d == pc.dir
         names == scandir(fs, store, baseline_file, listing, d, rd.p)
         h == HashStep(rd, d)
         kept == rd.r # "list" /\ h.ended /\ Keeps(h.digest)
         now == IF kept THEN clock + 1 ELSE clock
         data == IF kept THEN AddEntry(baseline_data, rd.p, h.digest, now)
                 ELSE baseline_data
         todo == IF rd.r = "list"
                 THEN ReadEach("hash", names) \o Descend(fs, d, rd.p) \o Tail(pc.todo)
                 ELSE h.todo
         seen == IF rd.r = "list"
                 THEN [pc.seen EXCEPT !.listed = @ \cup Range(names)]
                 ELSE IF h.ended THEN [pc.seen EXCEPT !.dig[rd.p] = h.digest]
                 ELSE pc.seen
         c == [pc EXCEPT !.todo = todo, !.seen = seen,
                         !.fd = IF rd.r = "list" THEN NoHandle ELSE h.fd]
     IN /\ now <= MaxClock
        /\ clock' = now
        /\ baseline_data' = data
        /\ IF todo # <<>>
           THEN /\ pc' = c
                /\ UNCHANGED <<store, listing, last, prev>>
           ELSE \E o \in SaveOutcomes(store, data) :
                  /\ store' = save_baseline(store, o, data)
                  /\ Relist(fs, store')
                  /\ last' = Report("create", d, "ok", o.how, "none", c)
                  /\ prev' = Done("create", pc.quiet, o.how, c)
                  /\ pc' = Idle
  /\ UNCHANGED <<baseline_file, fs, events>>

\* verify_integrity(), lines 69-86: the tests before the comparison.
VerifyIntegrity ==
  /\ Ready /\ baseline_data # NoObject
  /\ LET bd == baseline_data
         Abort(outcome) ==
           /\ last' = Plain("verify", "", outcome)
           /\ UNCHANGED <<baseline_file, store, baseline_data, fs, listing, clock,
                          events, pc, prev>>
     IN
     IF ~Truthy(bd) THEN Abort("NoBaseline")
     ELSE IF bd.kind # "object" THEN Abort("crash")
     ELSE IF GetDirectory(bd) = None \/ ~isdir(fs, GetDirectory(bd))
          THEN Abort("InvalidDirectory")
     ELSE IF "files" \notin bd.keys THEN Abort("crash")
     ELSE /\ clock < MaxClock
          /\ pc' = [Idle EXCEPT !.op = "verify", !.dir = bd.directory,
                      !.todo = ReadEach("exists", EntryOrder(bd))
                                 \o <<Read("list", "top")>>]
          /\ last' = NoReport
          /\ UNCHANGED <<baseline_file, store, baseline_data, fs, listing, clock,
                         events, prev>>

\* verify_integrity(), lines 88-133: os.path.exists of one entry, one step
\* of the hashing of one entry, or one listing of the walk; after the last
\* of them the timestamp, the save and the result.
VerifyCompare ==
  /\ pc.op = "verify"
  /\ LET rd == Head(pc.todo)
         d == pc.dir
         bd == baseline_data
         found == exists(fs, store, baseline_file, d, rd.p)
         h == HashStep(rd, d)
         hashed == rd.r \in {"hash", "read"} /\ h.ended
         names == scandir(fs, store, baseline_file, listing, d, rd.p)
         todo == CASE rd.r = "exists" -> AfterExists(found, rd.p, Tail(pc.todo))
                   [] rd.r = "list" -> Descend(fs, d, rd.p) \o Tail(pc.todo)
                   [] OTHER -> h.todo
         missing == IF rd.r = "exists" /\ ~found
                    THEN Append(pc.missing, rd.p) ELSE pc.missing
         changed == IF hashed /\ Differs(h.digest, bd.files[rd.p].hash)
                    THEN Append(pc.changed, rd.p) ELSE pc.changed
         new == IF rd.r = "list" THEN pc.new \o NewOf(names, bd) ELSE pc.new
         seen == CASE rd.r = "exists" ->
                        [pc.seen EXCEPT !.ex[rd.p] = IF found THEN "yes" ELSE "no"]
                   [] rd.r = "list" -> [pc.seen EXCEPT !.listed = @ \cup Range(names)]
                   [] hashed -> [pc.seen EXCEPT !.dig[rd.p] = h.digest]
                   [] OTHER -> pc.seen
         c == [pc EXCEPT !.todo = todo, !.seen = seen, !.changed = changed,
                         !.new = new, !.missing = missing,
                         !.fd = IF rd.r \in {"hash", "read"} THEN h.fd ELSE NoHandle]
     IN IF todo # <<>>
        THEN /\ pc' = c
             /\ UNCHANGED <<store, listing, baseline_data, clock, last, prev>>
        ELSE \E o \in SaveOutcomes(store, Touch(bd, clock + 1)) :
               /\ clock' = clock + 1
               /\ baseline_data' = Touch(bd, clock + 1)
               /\ store' = save_baseline(store, o, Touch(bd, clock + 1))
               /\ Relist(fs, store')
               /\ last' = Report("verify", "", "ok", o.how, prev.kind, c)
               /\ prev' = Done("verify", pc.quiet, o.how, c)
               /\ pc' = Idle
  /\ UNCHANGED <<baseline_file, fs, events>>

\* A direct call of save_baseline(), lines 34-41: no clock is read.  A call
\* that leaves the file as it was is left out.
SaveBaseline ==
  /\ Ready /\ baseline_data # NoObject
  /\ \E o \in SaveOutcomes(store, baseline_data) :
       /\ save_baseline(store, o, baseline_data) # store
       /\ store' = save_baseline(store, o, baseline_data)
       /\ Relist(fs, store')
       /\ last' = Report("save", "", "ok", o.how, "none", Idle)
  /\ prev' = NoPrev
  /\ UNCHANGED <<baseline_file, baseline_data, fs, clock, events, pc>>

\* The descriptor of the call c once the tree f0 has become f1: an open
\* descriptor follows its file while a file stays at the path (an edit in
\* place, a chmod) and keeps what the file held when it is unlinked.
Detach(c, f0, f1) ==
  IF /\ c.fd.state = "open" /\ Head(c.todo).p \in DataPaths
     /\ ~(isdir(f1, c.dir) /\ f1[c.dir].files[Head(c.todo).p].kind = "file")
  THEN [c.fd EXCEPT !.state = "orphan",
                    !.bytes = Bytes(f0[c.dir].files[Head(c.todo).p].content)]
  ELSE c.fd

\* The environment edits the monitored trees, between calls or while a call
\* is between two of its reads.
Edited ==
  /\ events < MaxEvents
  /\ events' = events + 1
  /\ pc.op = "idle" => Ready
  /\ last' = last
  /\ pc' = IF pc.op = "idle" THEN pc
           ELSE [pc EXCEPT !.quiet = FALSE, !.fd = Detach(pc, fs, fs')]
  /\ prev' = NoPrev
  /\ Relist(fs', store)
  /\ UNCHANGED <<baseline_file, store, baseline_data, clock>>

WriteFile(d, p, c) ==
  /\ isdir(fs, d) /\ p \in PathsIn(d)
  /\ fs[d].files[p].kind # "dir"
  /\ ~(fs[d].files[p].kind = "file" /\ fs[d].files[p].content = c)
  /\ fs' = [fs EXCEPT ![d].files[p] =
              FileOf(c, IF @.kind = "file" THEN @.readable ELSE TRUE)]
  /\ Edited

DeleteFile(d, p) ==
  /\ isdir(fs, d) /\ p \in PathsIn(d)
  /\ fs[d].files[p].kind # "none"
  /\ fs' = [fs EXCEPT ![d].files[p] = NoFile]
  /\ Edited

Chmod(d, p) ==
  /\ isdir(fs, d) /\ p \in PathsIn(d)
  /\ fs[d].files[p].kind = "file"
  /\ fs' = [fs EXCEPT ![d].files[p].readable = ~@]
  /\ Edited

\* ln -s of a target that does not exist, and mkdir, at a file's path.
MakeLink(d, p) ==
  /\ isdir(fs, d) /\ p \in PathsIn(d)
  /\ fs[d].files[p].kind = "none"
  /\ fs' = [fs EXCEPT ![d].files[p] = DanglingLink]
  /\ Edited

MakeDirAt(d, p) ==
  /\ isdir(fs, d) /\ p \in PathsIn(d)
  /\ fs[d].files[p].kind = "none"
  /\ fs' = [fs EXCEPT ![d].files[p] = DirAtPath]
  /\ Edited

RemoveDir(d) ==
  /\ isdir(fs, d) /\ d # baseline_file
  /\ fs' = [fs EXCEPT ![d] = NoDir]
  /\ Edited

MakeDir(d) ==
  /\ ~isdir(fs, d)
  /\ fs' = [fs EXCEPT ![d] = EmptyDir]
  /\ Edited

Next ==
  \/ Construct
  \/ Return
  \/ \E d \in PathArgs : CreateBaseline(d)
  \/ CreateWalk
  \/ VerifyIntegrity
  \/ VerifyCompare
  \/ SaveBaseline
  \/ \E d \in Dirs, p \in DataPaths, c \in Contents : WriteFile(d, p, c)
  \/ \E d \in Dirs, p \in DataPaths : DeleteFile(d, p)
  \/ \E d \in Dirs, p \in DataPaths : Chmod(d, p)
  \/ \E d \in Dirs, p \in DataPaths : MakeLink(d, p)
  \/ \E d \in Dirs, p \in DataPaths : MakeDirAt(d, p)
  \/ \E d \in Dirs : RemoveDir(d)
  \/ \E d \in Dirs : MakeDir(d)

Spec == Init /\ [][Next]_vars

\* -------------------------------------------------------------- properties
\* The steps that end a call, and the state they start from.  A verify
\* leaves baseline_data alone until its last step, and no call changes the
\* trees, so in a step that ends a verify the unprimed baseline_data is the
\* snapshot the call compared with and fs is the tree at its last read; it
\* is the tree at every read if the call was quiet.
NoDup(s) == \A i, j \in 1..Len(s) : s[i] = s[j] => i = j
VerifyDone == last'.op = "verify"
VerifyOk == last'.op = "verify" /\ last'.outcome = "ok"
VerifyBegins == pc.op = "idle" /\ pc'.op = "verify"
CreateOk == last'.op = "create" /\ last'.outcome = "ok"
Entries == DOMAIN baseline_data.files
Seen == last'.seen
ExistsNow(d, p) == exists(fs, store, baseline_file, d, p)
ListedNow(d, p) == listed(fs, store, baseline_file, d, p)
\* What calculate_hash returns for a file that is left alone while it is
\* read.
DigestNow(d, p) ==
  IF CanOpen(fs, store, baseline_file, d, p)
  THEN Sha256(FileBytes(fs, store, d, p)) ELSE NoDigest
HasLastChecked(st) == st.state = "json" /\ "last_checked" \in st.data.keys

\* C1: a verify that follows a create, with no edit of the tree since the
\* create began, returns three empty lists.
C1_NoOpStability ==
  (last.op = "verify" /\ last.outcome = "ok" /\ last.after = "create") =>
    (last.changed = <<>> /\ last.new = <<>> /\ last.missing = <<>>)

\* C2: the three lists a verify returns have no duplicates and are pairwise
\* disjoint; changed and missing hold baseline entries only and new holds
\* none; an entry found to exist is not missing; and, the tree left alone
\* during the call, no path that exists is missing and every new path is on
\* disk.
C2_Partition ==
  [][VerifyOk =>
       LET ch == Range(last'.changed)
           nw == Range(last'.new)
           ms == Range(last'.missing)
           d == baseline_data.directory
       IN /\ NoDup(last'.changed) /\ NoDup(last'.new) /\ NoDup(last'.missing)
          /\ ch \cap nw = {} /\ ch \cap ms = {} /\ nw \cap ms = {}
          /\ ch \cup ms \subseteq Entries
          /\ nw \cap Entries = {}
          /\ \A p \in Entries : Seen.ex[p] = "yes" => p \notin ms
          /\ nw \subseteq Seen.listed
          /\ last'.quiet =>
               /\ \A p \in AllPaths : ExistsNow(d, p) => p \notin ms
               /\ \A p \in nw : ListedNow(d, p)]_vars

C2_Witness ==
  /\ last.op = "verify" /\ last.outcome = "ok" /\ last.quiet
  /\ last.missing # <<>> /\ last.new # <<>>

\* C3: every entry is examined; missing is exactly the entries that
\* os.path.exists did not find, changed is exactly the entries it found and
\* whose digest is not the stored one, new is exactly the listed paths that
\* are not entries; and, the tree left alone during the call, what the call
\* found is what the tree holds.
C3_Classification ==
  [][VerifyOk =>
       LET d == baseline_data.directory IN
       /\ \A p \in Entries : Seen.ex[p] # "-"
       /\ Range(last'.missing) = {p \in Entries : Seen.ex[p] = "no"}
       /\ Range(last'.changed) =
            {p \in Entries : Seen.ex[p] = "yes"
                               /\ Seen.dig[p] # baseline_data.files[p].hash}
       /\ Range(last'.new) = Seen.listed \ Entries
       /\ last'.quiet =>
            /\ \A p \in Entries :
                 /\ (Seen.ex[p] = "yes") = ExistsNow(d, p)
                 /\ ExistsNow(d, p) => Seen.dig[p] = DigestNow(d, p)
            /\ Seen.listed = {p \in AllPaths : ListedNow(d, p)}]_vars

C3_Witness ==
  /\ last.op = "verify" /\ last.outcome = "ok" /\ last.quiet
  /\ last.changed # <<>> /\ last.new # <<>>
  /\ \E p \in DOMAIN baseline_data.files : p \notin Range(last.changed)

\* C4: no operation ends in an uncaught exception.
C4_NeverCrash == last.outcome # "crash"

\* C5 as stated: a verify of a snapshot object without entries or without a
\* root reports NoBaseline and returns no lists.  (Values on which verify
\* raises, C4, are left out of the statement.)
Comparable(v) == v.kind = "object" /\ (v.keys = {} \/ "files" \in v.keys)
Empty(v) == (v.kind = "object" /\ v.keys = {}) \/ (v.kind = "array" /\ v.items = 0)
C5_Original ==
  [][(VerifyDone /\ Comparable(baseline_data)
        /\ (baseline_data.files = NoEntries \/ GetDirectory(baseline_data) = None)) =>
       last'.outcome = "NoBaseline"]_vars

\* C5 amended: verify reports NoBaseline exactly when the loaded value is
\* empty, and then writes nothing; an object with entries but no directory
\* is refused as an invalid directory; a snapshot with a root and an empty
\* entry mapping is compared, every listed file being new.
C5_Amended ==
  [][/\ VerifyDone =>
          /\ (last'.outcome = "NoBaseline") = Empty(baseline_data)
          /\ last'.outcome = "NoBaseline" =>
               (last'.changed = <<>> /\ last'.new = <<>> /\ last'.missing = <<>>
                /\ store' = store /\ baseline_data' = baseline_data)
          /\ (Comparable(baseline_data) /\ ~Empty(baseline_data)
                /\ GetDirectory(baseline_data) = None) =>
               last'.outcome = "InvalidDirectory"
          /\ (last'.outcome = "ok" /\ baseline_data.files = NoEntries) =>
               /\ last'.changed = <<>> /\ last'.missing = <<>>
               /\ Range(last'.new) = Seen.listed
     /\ VerifyBegins =>
          (~Empty(baseline_data) /\ GetDirectory(baseline_data) # None)]_vars

C5_Witness ==
  /\ last.op = "verify" /\ last.outcome = "ok"
  /\ baseline_data.files = NoEntries
  /\ last.new # <<>>

\* C6: an entry that os.path.exists finds and calculate_hash cannot hash is
\* reported changed, not missing and not new, and every entry is examined;
\* the tree left alone during the call, these are the entries that exist
\* and cannot be hashed.
C6_UnreadableIsChanged ==
  [][VerifyOk =>
       LET d == baseline_data.directory IN
       /\ \A p \in Entries :
            (Seen.ex[p] = "yes" /\ Seen.dig[p] = NoDigest) =>
              /\ p \in Range(last'.changed)
              /\ p \notin Range(last'.missing)
              /\ p \notin Range(last'.new)
       /\ \A q \in Entries : Seen.ex[q] # "-"
       /\ \A q \in Entries : Seen.ex[q] = "yes" => Seen.dig[q] # Unread
       /\ last'.quiet =>
            \A p \in Entries :
              (ExistsNow(d, p) /\ DigestNow(d, p) = NoDigest) =>
                /\ p \in Range(last'.changed)
                /\ p \notin Range(last'.missing)
                /\ p \notin Range(last'.new)]_vars

C6_Witness ==
  /\ last.op = "verify" /\ last.outcome = "ok" /\ last.quiet
  /\ \E p \in Range(last.changed) :
       /\ p \in DataPaths
       /\ fs[baseline_data.directory].files[p].kind = "file"
       /\ ~fs[baseline_data.directory].files[p].readable
  /\ Cardinality(DOMAIN baseline_data.files) > 1

\* C7: a create refused for an invalid directory and a verify refused for an
\* empty baseline or an invalid root leave the store file and the in-memory
\* snapshot as they were.
Refused ==
  /\ last'.op \in {"create", "verify"}
  /\ last'.outcome \in {"InvalidDirectory", "NoBaseline"}
C7_AbortKeepsSnapshot ==
  [][Refused => (store' = store /\ baseline_data' = baseline_data)]_vars

C7_Witness ==
  /\ last.op = "create" /\ last.outcome = "InvalidDirectory" /\ last.saved = "none"
  /\ store.state = "json" /\ store.data = baseline_data
  /\ DOMAIN baseline_data.files # {}

\* C8 as stated, a verify being successful when it returned its lists
\* and its save wrote the store file: such a verify changes nothing of the
\* snapshot but the top-level last_checked, in memory and in the store
\* file; and when it follows such a verify, with no create and no edit of
\* the tree in between, it returns the same lists.
SameButLastChecked(a, b) ==
  /\ a.kind = b.kind /\ a.items = b.items
  /\ a.keys \ {"last_checked"} = b.keys \ {"last_checked"}
  /\ a.directory = b.directory /\ a.timestamp = b.timestamp
  /\ a.files = b.files /\ a.order = b.order
SameLists(r, q) ==
  r.changed = q.changed /\ r.new = q.new /\ r.missing = q.missing
C8_Original ==
  [][(VerifyOk /\ last'.saved = "written") =>
       /\ SameButLastChecked(baseline_data', baseline_data)
       /\ store.state = "json" /\ store'.state = "json"
       /\ SameButLastChecked(store'.data, store.data)
       /\ (prev.kind = "verify" /\ prev.saved = "written") =>
            SameLists(last', prev)]_vars

\* C8 amended: a verify that returns lists changes nothing of the in-memory
\* snapshot but the top-level last_checked.  If its save writes the store
\* file, the file then holds exactly the in-memory snapshot, and differs
\* only in last_checked from a file that held the in-memory snapshot before;
\* if the save cannot open the file, the file is as it was; if the save
\* fails after opening it, the file holds a part of the text short of the
\* whole, which is no snapshot.  A verify that follows a verify, with no
\* other operation and no edit of the tree since the earlier one began,
\* returns the same lists in the same order as far as every path but the
\* store file's own goes, and the same lists outright when the store file
\* lies outside the recorded root or the earlier save could not open it;
\* the store file's own path is classified by what the earlier save left:
\* new when it is no entry, changed when it is an entry and what the file
\* holds has not the recorded digest, in no list when it has.
Others(s) == LET NotStore(p) == p # StoreName IN SelectSeq(s, NotStore)
C8_Amended ==
  [][VerifyOk =>
       LET d == baseline_data.directory
           recorded == StoreName \in Entries
       IN
       /\ SameButLastChecked(baseline_data', baseline_data)
       /\ "last_checked" \in baseline_data'.keys
       /\ baseline_data'.last_checked > baseline_data.last_checked
       /\ last'.saved = "written" =>
            /\ store'.state = "json" /\ store'.data = baseline_data'
            /\ store'.text = DumpText(baseline_data')
            /\ (store.state = "json" /\ store.data = baseline_data) =>
                 SameButLastChecked(store'.data, store.data)
       /\ last'.saved = "refused" => store' = store
       /\ last'.saved = "cut" =>
            /\ store'.state = "invalid"
            /\ \E n \in 0..(Len(DumpText(baseline_data')) - 1) :
                 store'.text = PrefixText(baseline_data', n)
       /\ prev.kind = "verify" =>
            /\ Others(last'.changed) = Others(prev.changed)
            /\ Others(last'.new) = Others(prev.new)
            /\ Others(last'.missing) = Others(prev.missing)
            /\ (baseline_file # d \/ prev.saved = "refused") =>
                 SameLists(last', prev)
            /\ baseline_file = d =>
                 /\ StoreName \notin Range(last'.missing)
                 /\ (StoreName \in Range(last'.new)) =
                      (~recorded /\ ListedNow(d, StoreName))
                 /\ (StoreName \in Range(last'.changed)) =
                      (recorded /\ DigestNow(d, StoreName)
                                     # baseline_data.files[StoreName].hash)]_vars

C8_Witness ==
  /\ last.op = "verify" /\ last.outcome = "ok" /\ last.saved = "written"
  /\ last.after = "verify"
  /\ last.changed # <<>>
  /\ Cardinality(DOMAIN baseline_data.files) > 1
  /\ HasLastChecked(store) /\ store.data = baseline_data

\* What a create that completed leaves in memory: the root is the argument,
\* the entries are exactly the listed files that could be hashed, each with
\* the digest computed, and there is no top-level last_checked; the tree
\* left alone during the call, these are the files under the root whose
\* digest can be computed.
FreshInMemory ==
  LET d == last'.arg
      hashed == {p \in Seen.listed : Seen.dig[p] # NoDigest}
  IN /\ baseline_data'.kind = "object"
     /\ baseline_data'.keys = {"directory", "timestamp", "files"}
     /\ baseline_data'.directory = d
     /\ baseline_data'.last_checked = 0
     /\ baseline_data'.timestamp = baseline_data.timestamp
     /\ \A p \in Seen.listed : Seen.dig[p] # Unread
     /\ DOMAIN baseline_data'.files = hashed
     /\ Range(baseline_data'.order) = hashed /\ NoDup(baseline_data'.order)
     /\ \A p \in hashed :
          /\ baseline_data'.files[p].hash = Seen.dig[p]
          /\ baseline_data'.files[p].last_checked > baseline_data.timestamp
     /\ last'.quiet =>
          /\ Seen.listed = {p \in AllPaths : ListedNow(d, p)}
          /\ \A p \in Seen.listed : Seen.dig[p] = DigestNow(d, p)

\* C9: after a create that completed, the snapshot in memory is the fresh
\* one and nothing of the previous one is left in it, and so is the store
\* file once the save has written it.  (A save that cannot open the file
\* leaves it as it was; a save that fails after opening it leaves it
\* without a snapshot.)
C9_CreateReplaces ==
  [][CreateOk =>
       /\ FreshInMemory
       /\ last'.saved = "written" =>
            (store'.state = "json" /\ store'.data = baseline_data')
       /\ last'.saved = "refused" => store' = store
       /\ last'.saved = "cut" => store'.state = "invalid"]_vars

C9_Witness ==
  /\ last.op = "create" /\ last.outcome = "ok" /\ last.saved = "written"
  /\ last.quiet
  /\ store.data = baseline_data
  /\ baseline_data.timestamp > 1
  /\ \E p \in DataPaths :
       /\ fs[last.arg].files[p].kind = "file"
       /\ ~fs[last.arg].files[p].readable
  /\ DOMAIN baseline_data.files # {}

\* C10 as stated, step by step: a create that completed and saved leaves the
\* store file without a top-level last_checked, a verify that completed and
\* saved leaves it with one, and every other create or verify leaves its
\* presence as it was.
Command == last'.op \in {"create", "verify"}
Saved == last'.outcome = "ok" /\ last'.saved = "written"
C10_Original ==
  [][Command =>
       /\ (Saved /\ last'.op = "create") => ~HasLastChecked(store')
       /\ (Saved /\ last'.op = "verify") => HasLastChecked(store')
       /\ ~Saved => (HasLastChecked(store') <=> HasLastChecked(store))]_vars

\* C10 amended: a create whose save wrote the store file leaves it without a
\* top-level last_checked and a verify whose save wrote it leaves it with
\* one; a create or verify that is refused, or whose save cannot open the
\* file, leaves the presence of the field as it was; a create or verify
\* whose save fails after opening the file leaves the file without a
\* snapshot, and so without the field.
C10_Amended ==
  [][Command =>
       /\ (Saved /\ last'.op = "create") => ~HasLastChecked(store')
       /\ (Saved /\ last'.op = "verify") => HasLastChecked(store')
       /\ (last'.outcome # "ok" \/ last'.saved = "refused") =>
            (HasLastChecked(store') <=> HasLastChecked(store))
       /\ (last'.outcome = "ok" /\ last'.saved = "cut") =>
            (~HasLastChecked(store') /\ store'.state = "invalid")]_vars

C10_Witness ==
  /\ last.op = "verify" /\ last.outcome = "ok" /\ last.saved = "cut"
  /\ last.after = "verify"
  /\ store.state = "invalid"
  /\ "last_checked" \in baseline_data.keys

TypeOK ==
  /\ clock \in 0..MaxClock
  /\ events \in 0..MaxEvents
  /\ listing \in [Dirs -> Orders]
  /\ store.state \in {"absent", "dir", "invalid", "undecodable", "json"}
  /\ pc.op \in {"idle", "create", "verify"}
  /\ pc.fd.state \in {"closed", "open", "orphan"}
  /\ pc.fd.state # "closed" => (pc.todo # <<>> /\ Head(pc.todo).r = "read")
  /\ (pc.op = "idle") = (pc.todo = <<>>)
  /\ last.outcome \in {"", "ok", "InvalidDirectory", "NoBaseline", "crash"}
====
